---- MODULE Spec2Model ----
(***************************************************************************)
(* Model of the resumable movie download of api.hyper-tech.ch:             *)
(*   GET  /movies/download  (src/src/routes/movies/download.ts)            *)
(*   POST /movies/progress  (src/src/routes/movies/download_success.ts)    *)
(* against the movie_links collection.  Every awaited database call is one *)
(* atomic step; the synchronous code that follows an await belongs to the  *)
(* step of that await.  The record's progress and errorAt fields, which    *)
(* the progress route writes and no route reads, are left out.             *)
(* Spec runs requests concurrently, SpecSeq one at a time with every       *)
(* method and Range header, SpecCalc calls the coverage functions alone.   *)
(***************************************************************************)
EXTENDS Integers, Sequences, FiniteSets, TLC

\* ---------------------------------------------------------------- bounds
MaxDate == 2            \* distinct values of new Date() kept apart
MaxMails == 2           \* the mail counter saturates here
FileSize == 1000        \* fileStats.size of Heuried.mp4
ChunkBytes == 500       \* bytes of one fileStream "data" event

Sessions == {"A", "B"}                \* the download requests of one behaviour
Tokens == {"t1"}                    \* tokens the webhook has inserted
UnknownToken == "tx"                \* a token of no record
NoToken == "none"                   \* request without ?token=
NoRange == <<>>                     \* request without a Range header
NoEnd == -1                         \* "bytes=S-" (endStr is empty)
Null == 0                           \* downloadedAt: null

Half == FileSize \div 2

\* Range headers the clients send: none, "bytes=0-(Half-1)", "bytes=Half-",
\* "bytes=0-(FileSize-2)".
RangeHeaders ==
    { NoRange,
      <<0, Half - 1>>,
      <<Half, NoEnd>>,
      <<0, FileSize - 2>> }

NaN == -2                           \* parseInt of a string that is no number

\* Further Range headers: "bytes=Half-(3*FileSize)" (end beyond the file),
\* "bytes=(2*FileSize)-(3*FileSize)" (start beyond the file),
\* "bytes=Half-(Half-1)" (start > end), "bytes=abc" (unparsable).
WideRangeHeaders ==
    RangeHeaders \cup
    { <<Half, 3 * FileSize>>,
      <<2 * FileSize, 3 * FileSize>>,
      <<Half, Half - 1>>,
      <<NaN, NoEnd>> }

\* app.get routes GET and HEAD requests to OnRequest (app.ts 56)
Methods == {"GET", "HEAD"}

\* progress query values of POST /movies/progress
ProgressValues == {"100", "-1", "50"}

Max(a, b) == IF a >= b THEN a ELSE b
Min(a, b) == IF a <= b THEN a ELSE b

\* ------------------------------------------------------- pure functions

\* Array.prototype.sort((a, b) => a.start - b.start): a stable sort.
RECURSIVE SortByStart(_)
SortByStart(ranges) ==
    IF Len(ranges) <= 1 THEN ranges
    ELSE LET rest == SortByStart(SubSeq(ranges, 1, Len(ranges) - 1))
             x == ranges[Len(ranges)]
             k == Cardinality({i \in 1..Len(rest) : rest[i].start <= x.start})
         IN SubSeq(rest, 1, k) \o <<x>> \o SubSeq(rest, k + 1, Len(rest))

\* the for loop of mergeRanges
RECURSIVE MergeLoop(_, _, _, _)
MergeLoop(ranges, i, current, merged) ==
    IF i > Len(ranges) THEN Append(merged, current)
    ELSE IF ranges[i].start <= current.end + 1
         THEN MergeLoop(ranges, i + 1,
                        [current EXCEPT !.end = Max(current.end, ranges[i].end)],
                        merged)
         ELSE MergeLoop(ranges, i + 1, ranges[i], Append(merged, current))

\* the merge without the sort by start
mergeRangesUnsorted(ranges) ==
    IF Len(ranges) = 0 THEN <<>>
    ELSE MergeLoop(ranges, 2, ranges[1], <<>>)

mergeRanges(ranges) ==
    IF Len(ranges) = 0 THEN <<>>
    ELSE LET sorted == SortByStart(ranges)
         IN MergeLoop(sorted, 2, sorted[1], <<>>)

\* a total that takes end - start as the size of a range
RECURSIVE totalBytesExclusive(_)
totalBytesExclusive(ranges) ==
    IF Len(ranges) = 0 THEN 0
    ELSE (ranges[1].end - ranges[1].start) + totalBytesExclusive(Tail(ranges))

RECURSIVE totalBytesDownloaded(_)
totalBytesDownloaded(ranges) ==
    IF Len(ranges) = 0 THEN 0
    ELSE (ranges[1].end - ranges[1].start + 1) + totalBytesDownloaded(Tail(ranges))

\* the gap scan at the end of isFullyCovered
RECURSIVE GapScan(_, _, _, _)
GapScan(merged, i, currentEnd, fileSize) ==
    IF i > Len(merged) THEN currentEnd >= fileSize - 1
    ELSE IF merged[i].start > currentEnd + 1 THEN FALSE
         ELSE GapScan(merged, i + 1, Max(currentEnd, merged[i].end), fileSize)

\* (totalBytes / fileSize) * 100 >= 99.9, as exact arithmetic
AtLeast999Permille(bytes, fileSize) == bytes * 1000 >= 999 * fileSize

isFullyCovered(ranges, fileSize) ==
    LET merged == mergeRanges(ranges)
        totalBytes == totalBytesDownloaded(merged)
    IN IF AtLeast999Permille(totalBytes, fileSize) THEN TRUE
       ELSE IF Len(merged) = 1 /\ merged[1].start = 0 /\ merged[1].end >= fileSize - 1
            THEN TRUE
       ELSE IF Len(merged) > 0
            THEN IF merged[1].start # 0 THEN FALSE
                 ELSE GapScan(merged, 2, merged[1].end, fileSize)
       ELSE FALSE

\* safeEnd without Math.min(end, fileSize - 1)
RangeSafeEndUnclamped(h, fileSize) == IF h[2] = NoEnd THEN fileSize - 1 ELSE h[2]

\* Range header -> start / safeEnd / chunkSize (download.ts 202-208)
RangeStart(h) == h[1]
RangeSafeEnd(h, fileSize) ==
    Min(IF h[2] = NoEnd THEN fileSize - 1 ELSE h[2], fileSize - 1)
\* a createReadStream that opens on any options
ReadStreamAcceptsAll(h, fileSize) == TRUE

\* createReadStream(file, { start, end: safeEnd }) accepts its options: start
\* is an integer >= 0 and start <= end; otherwise it throws (download.ts 221)
ReadStreamAccepts(h, fileSize) ==
    h = NoRange \/ (RangeStart(h) # NaN /\ RangeStart(h) >= 0
                    /\ RangeStart(h) <= RangeSafeEnd(h, fileSize))
\* bytes the response body carries
BodySize(h, fileSize) ==
    IF h = NoRange THEN fileSize ELSE RangeSafeEnd(h, fileSize) - RangeStart(h) + 1

\* new Date(): later than the date the record holds (kept apart up to MaxDate)
NewDate(old) == IF old < MaxDate THEN old + 1 ELSE MaxDate

\* ---------------------------------------------------------------- state
VARIABLES
    db,             \* movie_links: token -> record
    sess,           \* the download requests: session -> locals of OnRequest
    mails,          \* token -> sendMail(.., "movie_downloaded.html") calls
    everCompleted,  \* token -> downloadedAt has been set at some time
    calc,           \* one call of a pure function: its arguments and result
    router,         \* app.ts: the routes gathered, registered, and a dispatch
    authz,          \* the Authorization Manager: one request at its middleware
    hook,           \* /stripe/webhook: deliveries of one checkout event
    cache,          \* the add-on badge route: its cache and the clock
    mongo           \* helpers/database.ts: the module's connection state

\* the state outside the download and progress routes
outside == <<router, authz, hook, cache, mongo>>

vars == <<db, sess, mails, everCompleted, calc, outside>>

\* no call of a pure function is under study
NoCalc ==
    [ ranges |-> <<>>,
      done |-> FALSE, covered |-> FALSE,                \* isFullyCovered
      added |-> FALSE, merged |-> <<>>, total |-> 0 ]   \* mergeRanges

\* a record inserted with locked: true
LockedRecord ==
    [ locked |-> TRUE, downloadedAt |-> Null,
      hasRanges |-> FALSE, partialRanges |-> <<>> ]

\* app.ts before main() has gathered a route
NoRouter == [gathered |-> <<>>, registered |-> <<>>, listening |-> FALSE,
             request |-> <<>>, invoked |-> "none"]

\* the Authorization Manager before a request: the indexed tokens and the clock
NoAuthz == [authorizations |-> <<>>, now |-> 0, group |-> "null",
            header |-> "unset", status |-> "none", reached |-> FALSE]
\* /stripe/webhook before the first delivery of the event
NoHook == [hasMovie |-> FALSE, hasEmail |-> FALSE, deliveries |-> 0,
           pc |-> "idle", records |-> <<>>, orderMails |-> 0, answers |-> <<>>]
\* the badge route's module state before any request (part_004 8-11)
NoCache == [lastUpdate |-> 0, users |-> 0, now |-> 0, ticks |-> 0,
            pc |-> <<>>, event |-> "none", shown |-> 0]
\* helpers/database.ts as the module is loaded (database.ts 3-5); client and
\* db name a MongoClient by its number, 0 while they are undefined
NoMongo == [isDatabaseConnected |-> FALSE, client |-> 0, db |-> 0,
            created |-> 0, pc |-> <<>>, got |-> <<>>]

\* nothing outside the download and progress routes takes part
RestIdle ==
    /\ router = NoRouter
    /\ authz = NoAuthz
    /\ hook = NoHook
    /\ cache = NoCache
    /\ mongo = NoMongo

\* the record the Stripe webhook inserts (webhook.ts 59-66)
IssuedRecord ==
    [ locked |-> FALSE, downloadedAt |-> Null,
      hasRanges |-> FALSE, partialRanges |-> <<>> ]

IdleSession ==
    [ pc |-> "idle",            \* idle, found, init, streaming, failed, done
      method |-> "GET",
      token |-> NoToken,
      range |-> NoRange,
      snapRanges |-> FALSE,     \* document.partialRanges was set at findOne
      fileSize |-> FileSize,    \* fileStats.size, read before the lock write
      downloadSuccessful |-> FALSE,
      start |-> 0,              \* createReadStream reads start .. safeEnd
      safeEnd |-> 0,
      bytesStreamed |-> 0,
      flushed |-> 0,            \* body bytes the socket has taken from res
      fin |-> "none",           \* res.on("finish") handler: none, read, write, complete,
                                \*   fullWrite, fullMail, unlock, done
      mergedRanges |-> <<>>,    \* its local mergedRanges
      mail |-> "none",          \* its sendMail call: none, called, failed
      cls |-> "none",           \* req.on("close") handler: none, skipped, unlock, done
      err |-> "none",           \* fileStream.on("error") handler: none, threw, unlock, done
      resp |-> "none" ]

Init ==
    /\ db = [t \in Tokens |-> IssuedRecord]
    /\ sess = [s \in Sessions |-> IdleSession]
    /\ mails = [t \in Tokens |-> 0]
    /\ everCompleted = [t \in Tokens |-> FALSE]
    /\ calc = NoCalc
    /\ RestIdle

Bump(n, cap) == IF n < cap THEN n + 1 ELSE cap

\* an unlock whose filter matches every record
UnlockedAll(t) == [u \in DOMAIN db |-> [db[u] EXCEPT !.locked = FALSE]]

\* collection.updateOne({ token }, { $set: { locked: false } })
Unlocked(t) == [db EXCEPT ![t].locked = FALSE]

\* Request s makes a release write (an unlock or the completion write) that
\* leaves the collection as newdb, and goes on as rec.
ReleaseBy(s, newdb, rec) ==
    /\ db' = newdb
    /\ sess' = [sess EXCEPT ![s] = rec]

\* res.headersSent: writeHead ran (range path, download.ts 213), or the first
\* chunk of the piped file was written (full path)
HeadersSent(rec) == rec.range # NoRange \/ rec.bytesStreamed > 0

\* ------------------------------------------------- GET /movies/download

\* OnRequest without the check of req.query.token (download.ts 122-125 left
\* out): findOne is called with the missing token and finds no record
RequestWithoutTokenCheck(s, t, h, m) ==
    /\ sess[s].pc = "idle"
    /\ LET base == [sess[s] EXCEPT !.token = t]
           answer(r) == [base EXCEPT !.pc = "done", !.resp = r]
       IN sess' = [sess EXCEPT ![s] =
            IF t \in DOMAIN db /\ db[t].downloadedAt # Null
            THEN answer("403 DOWNLOAD_ALREADY_COMPLETED")
            ELSE IF t \notin DOMAIN db THEN answer("400 TOKEN_INVALID")
            ELSE IF db[t].locked THEN answer("400 DOWNLOAD_IN_PROGRESS")
            ELSE [base EXCEPT !.pc = "found", !.method = m, !.range = h,
                              !.snapRanges = db[t].hasRanges]]
    /\ UNCHANGED <<db, mails, everCompleted, calc, outside>>

\* Request arrival up to the end of the checks that follow findOne
\* (download.ts 122-148).
Request(s, t, h, m) ==
    /\ sess[s].pc = "idle"
    /\ LET base == [sess[s] EXCEPT !.token = t]
           answer(r) == [base EXCEPT !.pc = "done", !.resp = r]
       IN sess' = [sess EXCEPT ![s] =
            IF t = NoToken THEN answer("400 NO_TOKEN")
            ELSE IF t \in DOMAIN db /\ db[t].downloadedAt # Null
                 THEN answer("403 DOWNLOAD_ALREADY_COMPLETED")
            ELSE IF t \notin DOMAIN db THEN answer("400 TOKEN_INVALID")
            ELSE IF db[t].locked THEN answer("400 DOWNLOAD_IN_PROGRESS")
            ELSE [base EXCEPT !.pc = "found", !.method = m, !.range = h,
                              !.snapRanges = db[t].hasRanges]]
    /\ UNCHANGED <<db, mails, everCompleted, calc, outside>>

\* findMovieFile finds nothing (download.ts 151-155)
FileMissing(s) ==
    /\ sess[s].pc = "found"
    /\ sess' = [sess EXCEPT ![s].pc = "done", ![s].resp = "500 MOVIE_FILE_NOT_FOUND"]
    /\ UNCHANGED <<db, mails, everCompleted, calc, outside>>

\* The synchronous tail of OnRequest once partialRanges exists: the close
\* handler is registered, the headers are written, the file is piped
\* (download.ts 182-226, 309-321, 372).  When createReadStream throws,
\* OnRequest ends after writeHead(206, ..): no finish or error handler is
\* registered and the response is never ended.
BeginStream(rec) ==
    [rec EXCEPT !.pc = IF ReadStreamAccepts(rec.range, rec.fileSize)
                       THEN "streaming" ELSE "failed",
                !.start = IF rec.range = NoRange THEN 0 ELSE RangeStart(rec.range),
                !.safeEnd = IF rec.range = NoRange THEN rec.fileSize - 1
                            ELSE RangeSafeEnd(rec.range, rec.fileSize),
                !.resp = IF rec.range = NoRange THEN "200" ELSE "206"]

\* findMovieFile succeeded and statSync gave the size (download.ts 158-159);
\* the lock write (167), then 169-180
Lock(s, size) ==
    /\ sess[s].pc = "found"
    /\ db' = [db EXCEPT ![sess[s].token].locked = TRUE]
    /\ LET rec == [sess[s] EXCEPT !.fileSize = size]
       IN sess' = [sess EXCEPT ![s] =
            IF rec.snapRanges THEN BeginStream(rec)
            ELSE [rec EXCEPT !.pc = "init"]]
    /\ UNCHANGED <<mails, everCompleted, calc, outside>>

\* updateOne({ token }, { $set: { partialRanges: [] } }) (download.ts 177-180)
InitRanges(s) ==
    /\ sess[s].pc = "init"
    /\ db' = [db EXCEPT ![sess[s].token].hasRanges = TRUE,
                        ![sess[s].token].partialRanges = <<>>]
    /\ sess' = [sess EXCEPT ![s] = BeginStream(sess[s])]
    /\ UNCHANGED <<mails, everCompleted, calc, outside>>

StreamEnded(s) == sess[s].bytesStreamed = BodySize(sess[s].range, sess[s].fileSize)

\* fileStream.on("data") (download.ts 223-225, 319-321)
StreamData(s) ==
    /\ sess[s].pc = "streaming"
    /\ sess[s].cls = "none" /\ sess[s].err = "none"
    /\ ~StreamEnded(s)
    /\ sess' = [sess EXCEPT ![s].bytesStreamed =
                   Min(@ + ChunkBytes, BodySize(sess[s].range, sess[s].fileSize))]
    /\ UNCHANGED <<db, mails, everCompleted, calc, outside>>

\* The socket takes the body bytes written to res so far (fileStream.pipe(res),
\* download.ts 309, 372).  The response to a HEAD request has no body: what
\* is written to res is dropped.
Flush(s) ==
    /\ sess[s].pc = "streaming"
    /\ sess[s].method = "GET"    /\ sess[s].cls = "none"
    /\ sess[s].flushed < sess[s].bytesStreamed
    /\ sess' = [sess EXCEPT ![s].flushed = sess[s].bytesStreamed]
    /\ UNCHANGED <<db, mails, everCompleted, calc, outside>>

\* the file was read to the end of the interval and the body, if the
\* response has one, was handed to the socket
AllFlushed(s) ==
    /\ StreamEnded(s)
    /\ sess[s].method = "HEAD" \/ sess[s].flushed = sess[s].bytesStreamed

\* res "finish" is emitted: the handler starts.  The range handler issues
\* findOne (231); the full-file handler decides on bytesStreamed (325-328).
FinishEvent(s) ==
    /\ sess[s].pc = "streaming"
    /\ sess[s].fin = "none" /\ sess[s].cls = "none"
    /\ \/ sess[s].err = "none" /\ AllFlushed(s)        \* pipe ended the response
       \/ sess[s].err \in {"unlock", "done"}           \* res.json(500) ended it
    /\ sess' = [sess EXCEPT ![s] =
            IF sess[s].range # NoRange THEN [sess[s] EXCEPT !.fin = "read"]
            ELSE IF AtLeast999Permille(sess[s].bytesStreamed, sess[s].fileSize)
                 THEN [sess[s] EXCEPT !.downloadSuccessful = TRUE, !.fin = "fullWrite"]
            ELSE [sess[s] EXCEPT !.fin = "unlock"]]
    /\ UNCHANGED <<db, mails, everCompleted, calc, outside>>

\* range handler: findOne, push, mergeRanges (download.ts 231-242)
FinishRead(s) ==
    /\ sess[s].fin = "read"
    /\ LET docNow == db[sess[s].token]
           existingRanges == IF docNow.hasRanges THEN docNow.partialRanges ELSE <<>>
           pushed == Append(existingRanges,
                            [start |-> sess[s].start, end |-> sess[s].safeEnd])
       IN sess' = [sess EXCEPT ![s].fin = "write",
                               ![s].mergedRanges = mergeRanges(pushed)]
    /\ UNCHANGED <<db, mails, everCompleted, calc, outside>>

\* range handler: the partialRanges write, then the completion test
\* (download.ts 254-262, 284-286)
FinishWriteRanges(s) ==
    /\ sess[s].fin = "write"
    /\ db' = [db EXCEPT ![sess[s].token].hasRanges = TRUE,
                        ![sess[s].token].partialRanges = sess[s].mergedRanges]
    /\ sess' = [sess EXCEPT ![s] =
            IF isFullyCovered(sess[s].mergedRanges, sess[s].fileSize)
            THEN [sess[s] EXCEPT !.downloadSuccessful = TRUE, !.fin = "complete"]
            ELSE [sess[s] EXCEPT !.fin = "unlock"]]
    /\ UNCHANGED <<mails, everCompleted, calc, outside>>

\* range handler: the partialRanges write throws; the catch block, where
\* mergedRanges is out of scope, unlocks (download.ts 289-292)
FinishWriteFails(s) ==
    /\ sess[s].fin = "write"
    /\ sess' = [sess EXCEPT ![s].fin = "unlock", ![s].mergedRanges = <<>>]
    /\ UNCHANGED <<db, mails, everCompleted, calc, outside>>

\* range handler: the completion write and sendMail (download.ts 267-280)
FinishComplete(s) ==
    /\ sess[s].fin = "complete"
    /\ LET t == sess[s].token
       IN /\ ReleaseBy(s, [db EXCEPT ![t].downloadedAt = NewDate(@), ![t].locked = TRUE],
                       [sess[s] EXCEPT !.fin = "done", !.mail = "called"])
          /\ mails' = [mails EXCEPT ![t] = Bump(@, MaxMails)]
          /\ everCompleted' = [everCompleted EXCEPT ![t] = TRUE]
    /\ UNCHANGED <<calc, outside>>

\* full-file handler: the completion write (download.ts 332-341)
FullComplete(s) ==
    /\ sess[s].fin = "fullWrite"
    /\ LET t == sess[s].token
       IN /\ ReleaseBy(s, [db EXCEPT ![t].hasRanges = TRUE,
                                     ![t].partialRanges =
                                         <<[start |-> 0, end |-> sess[s].fileSize - 1]>>,
                                     ![t].downloadedAt = NewDate(@),
                                     ![t].locked = TRUE],
                       [sess[s] EXCEPT !.fin = "fullMail"])
          /\ everCompleted' = [everCompleted EXCEPT ![t] = TRUE]
    /\ UNCHANGED <<mails, calc, outside>>

\* full-file handler: findOne, sendMail (download.ts 344-348)
FullMail(s) ==
    /\ sess[s].fin = "fullMail"
    /\ mails' = [mails EXCEPT ![sess[s].token] = Bump(@, MaxMails)]
    /\ sess' = [sess EXCEPT ![s].fin = "done", ![s].mail = "called"]
    /\ UNCHANGED <<db, everCompleted, calc, outside>>

\* sendMail awaited inside the try block: its failure reaches the catch
\* block of the finish handler, which unlocks (download.ts 289-292)
MailFailsCaught(s) ==
    /\ sess[s].mail = "called"
    /\ db' = Unlocked(sess[s].token)
    /\ sess' = [sess EXCEPT ![s].mail = "failed"]
    /\ UNCHANGED <<mails, everCompleted, calc, outside>>

\* The promise of the sendMail call resolves to false (sendMail.ts 69-72) or
\* rejects (29).  The call is not awaited (download.ts 279, 346): no code of
\* the route runs on its outcome.
MailFails(s) ==
    /\ sess[s].mail = "called"
    /\ sess' = [sess EXCEPT ![s].mail = "failed"]
    /\ UNCHANGED <<db, mails, everCompleted, calc, outside>>

\* either finish handler: updateOne locked:false (download.ts 287, 292, 355)
FinishUnlock(s) ==
    /\ sess[s].fin = "unlock"
    /\ ReleaseBy(s, Unlocked(sess[s].token), [sess[s] EXCEPT !.fin = "done"])
    /\ UNCHANGED <<mails, everCompleted, calc, outside>>

\* req "close" is emitted: after the response finished, or on a client
\* disconnect (download.ts 183-184); the handler's findOne only logs.
CloseEvent(s) ==
    /\ sess[s].pc \in {"streaming", "failed"}
    /\ sess[s].cls = "none"
    /\ sess' = [sess EXCEPT ![s].cls =
                   IF sess[s].downloadSuccessful THEN "skipped" ELSE "unlock"]
    /\ UNCHANGED <<db, mails, everCompleted, calc, outside>>

\* close handler: updateOne locked:false (download.ts 193)
CloseUnlock(s) ==
    /\ sess[s].cls = "unlock"
    /\ ReleaseBy(s, Unlocked(sess[s].token), [sess[s] EXCEPT !.cls = "done"])
    /\ UNCHANGED <<mails, everCompleted, calc, outside>>

\* fileStream "error" is emitted before the file was read to its end
\* (download.ts 299-301, 362-364).  res.status(500).json(..) throws
\* ERR_HTTP_HEADERS_SENT once the headers are out, and the handler's unlock
\* is then never reached; otherwise it answers 500 and the unlock is issued.
StreamError(s) ==
    /\ sess[s].pc = "streaming"
    /\ sess[s].err = "none" /\ sess[s].cls = "none" /\ sess[s].fin = "none"
    /\ ~StreamEnded(s)
    /\ sess' = [sess EXCEPT ![s] =
            IF HeadersSent(sess[s]) THEN [sess[s] EXCEPT !.err = "threw"]
            ELSE [sess[s] EXCEPT !.err = "unlock",
                                 !.resp = "500 Failed to stream the file"]]
    /\ UNCHANGED <<db, mails, everCompleted, calc, outside>>

\* error handler: updateOne locked:false (download.ts 303, 366)
ErrorUnlock(s) ==
    /\ sess[s].err = "unlock"
    /\ ReleaseBy(s, Unlocked(sess[s].token), [sess[s] EXCEPT !.err = "done"])
    /\ UNCHANGED <<mails, everCompleted, calc, outside>>

\* ------------------------------------------------ POST /movies/progress

\* progress === "100": the write, findOne, sendMail (download_success.ts 36-63)
Progress100(t, p) ==
    /\ p = "100"
    /\ db' = [db EXCEPT ![t].locked = FALSE,
                        ![t].downloadedAt = NewDate(@)]
    /\ mails' = [mails EXCEPT ![t] = Bump(@, MaxMails)]
    /\ everCompleted' = [everCompleted EXCEPT ![t] = TRUE]
    /\ UNCHANGED <<sess, calc, outside>>

\* progress === "-1" (download_success.ts 64-74)
ProgressFailed(t, p) ==
    /\ p = "-1"
    /\ db' = [db EXCEPT ![t].locked = FALSE,
                        ![t].downloadedAt = Null]
    /\ UNCHANGED <<sess, mails, everCompleted, calc, outside>>

\* any other progress value (download_success.ts 75-82)
ProgressOther(t, p) ==
    /\ p \notin {"100", "-1"}
    /\ db' = [db EXCEPT ![t].locked = TRUE]
    /\ UNCHANGED <<sess, mails, everCompleted, calc, outside>>

\* -------------------------------------------------------- specification

\* GET requests with Range headers the file can serve, in any interleaving
\* with one another and with the progress route.
Next ==
    \/ \E s \in Sessions, t \in Tokens \cup {UnknownToken, NoToken}, h \in RangeHeaders :
          Request(s, t, h, "GET")
    \/ \E s \in Sessions : FileMissing(s)
    \/ \E s \in Sessions : Lock(s, FileSize)
    \/ \E s \in Sessions : InitRanges(s)
    \/ \E s \in Sessions : StreamData(s)
    \/ \E s \in Sessions : Flush(s)
    \/ \E s \in Sessions : FinishEvent(s)
    \/ \E s \in Sessions : FinishRead(s)
    \/ \E s \in Sessions : FinishWriteRanges(s)
    \/ \E s \in Sessions : FinishWriteFails(s)
    \/ \E s \in Sessions : FinishComplete(s)
    \/ \E s \in Sessions : FullComplete(s)
    \/ \E s \in Sessions : FullMail(s)
    \/ \E s \in Sessions : FinishUnlock(s)
    \/ \E s \in Sessions : CloseEvent(s)
    \/ \E s \in Sessions : CloseUnlock(s)
    \/ \E s \in Sessions : StreamError(s)
    \/ \E s \in Sessions : ErrorUnlock(s)
    \/ \E t \in Tokens, p \in ProgressValues : Progress100(t, p)
    \/ \E t \in Tokens, p \in ProgressValues : ProgressFailed(t, p)
    \/ \E t \in Tokens, p \in ProgressValues : ProgressOther(t, p)

Spec == Init /\ [][Next]_vars

\* ------------------------------------- the coverage functions on their own

MaxRanges == 2          \* longest list of ranges handed to a coverage function

\* offsets at the ends, at the middle and next to them
Offsets == {0, 1, Half - 1, Half, FileSize - 2, FileSize - 1}

ByteRanges == {r \in [start : Offsets, end : Offsets] : r.start <= r.end}

\* the first half, the second half and the first half again
HalvesList ==
    << [start |-> 0, end |-> Half - 1],
       [start |-> Half, end |-> FileSize - 1],
       [start |-> 0, end |-> Half - 1] >>

RangeLists == UNION {[1..n -> ByteRanges] : n \in 0..MaxRanges} \cup {HalvesList}

InitCalc ==
    /\ db = [t \in Tokens |-> IssuedRecord]
    /\ sess = [s \in Sessions |-> IdleSession]
    /\ mails = [t \in Tokens |-> 0]
    /\ everCompleted = [t \in Tokens |-> FALSE]
    /\ calc \in {[NoCalc EXCEPT !.ranges = l] : l \in RangeLists}
    /\ RestIdle

\* the finish handler adds a range to the coverage: existingRanges.push(..),
\* mergeRanges(existingRanges) (download.ts 238-242)
AddRange(coverage, r) == mergeRanges(Append(coverage, r))

\* the ranges of a list added one after the other, as by successive requests
RECURSIVE AddAll(_, _)
AddAll(coverage, ranges) ==
    IF Len(ranges) = 0 THEN coverage
    ELSE AddAll(AddRange(coverage, Head(ranges)), Tail(ranges))

\* the ranges are added to an empty coverage and the covered total is taken
CallAddRanges ==
    /\ ~calc.done /\ ~calc.added
    /\ LET merged == AddAll(<<>>, calc.ranges)
       IN calc' = [calc EXCEPT !.added = TRUE, !.merged = merged,
                               !.total = totalBytesDownloaded(merged)]
    /\ UNCHANGED <<db, sess, mails, everCompleted, outside>>

\* isFullyCovered(ranges, fileSize) is called (download.ts 260)
CallIsFullyCovered ==
    /\ ~calc.done /\ ~calc.added
    /\ calc' = [calc EXCEPT !.done = TRUE,
                            !.covered = isFullyCovered(calc.ranges, FileSize)]
    /\ UNCHANGED <<db, sess, mails, everCompleted, outside>>

NextCalc == CallIsFullyCovered \/ CallAddRanges

SpecCalc == InitCalc /\ [][NextCalc]_vars

\* ------------------------------------------------------------ vocabulary

\* release writes (unlock or completion write) a request has made
ReleaseWrites(rec) ==
    (IF rec.fin \in {"done", "fullMail"} THEN 1 ELSE 0)
    + (IF rec.cls = "done" THEN 1 ELSE 0)
    + (IF rec.err = "done" THEN 1 ELSE 0)

\* the request made its lock write
Acquired(rec) == rec.pc \in {"init", "streaming", "failed"}

\* the request holds the lease on t: locked it and has not yet released
Holds(s, t) ==
    /\ Acquired(sess[s]) /\ sess[s].token = t
    /\ ReleaseWrites(sess[s]) = 0

\* request s makes a release write in this step
ReleaseStep(s) == ReleaseWrites(sess'[s]) > ReleaseWrites(sess[s])

\* the request's finish handler made the completion write
CompletedBy(rec) == rec.downloadSuccessful /\ rec.fin \in {"done", "fullMail"}

\* every handler of the request has run to its end
Over(rec) ==
    /\ rec.pc \in {"streaming", "failed"}
    /\ rec.cls \in {"done", "skipped"}
    /\ rec.fin \in {"none", "done"}
    /\ rec.err \in {"none", "threw", "done"}

Coverage(t) == IF db[t].hasRanges THEN db[t].partialRanges ELSE <<>>

\* every range of old lies inside a range of new (new is a merged list)
Subsumes(new, old) ==
    \A i \in 1..Len(old) : \E j \in 1..Len(new) :
        new[j].start <= old[i].start /\ old[i].end <= new[j].end

FullCoverage == <<[start |-> 0, end |-> FileSize - 1]>>

\* the state of the spec's DownloadToken
TokenState(doc) ==
    IF doc.downloadedAt # Null THEN "Completed"
    ELSE IF doc.locked THEN "Locked"
    ELSE IF doc.hasRanges THEN "Paused"
    ELSE "Issued"

\* ------------------------------------------------ two purchases

\* two purchases, each with its own token
TwoTokens == {"t1", "t2"}

InitTokens ==
    /\ db = [t \in TwoTokens |-> IssuedRecord]
    /\ sess = [s \in Sessions |-> IdleSession]
    /\ mails = [t \in TwoTokens |-> 0]
    /\ everCompleted = [t \in TwoTokens |-> FALSE]
    /\ calc = NoCalc
    /\ RestIdle

\* the token each client bought
TokenOf == [s \in Sessions |-> IF s = "A" THEN "t1" ELSE "t2"]

\* the whole file, with no Range header or as bytes=0-, or one of its halves
HalfRangeHeaders == {NoRange, <<0, NoEnd>>, <<0, Half - 1>>, <<Half, NoEnd>>}

\* A client requests the download of its own purchase.
RequestOwn(s, h) == Request(s, TokenOf[s], h, "GET")

\* the token whose client also reports its progress
ReportedToken == "t2"

\* downloads of the two purchases in any interleaving with one another and
\* with the progress reports of the second purchase
NextTokens ==
    \/ \E s \in Sessions, h \in HalfRangeHeaders : RequestOwn(s, h)
    \/ \E s \in Sessions : Lock(s, FileSize)
    \/ \E s \in Sessions : InitRanges(s)
    \/ \E s \in Sessions : StreamData(s)
    \/ \E s \in Sessions : Flush(s)
    \/ \E s \in Sessions : FinishEvent(s)
    \/ \E s \in Sessions : FinishRead(s)
    \/ \E s \in Sessions : FinishWriteRanges(s)
    \/ \E s \in Sessions : FinishWriteFails(s)
    \/ \E s \in Sessions : FinishComplete(s)
    \/ \E s \in Sessions : FullComplete(s)
    \/ \E s \in Sessions : FullMail(s)
    \/ \E s \in Sessions : FinishUnlock(s)
    \/ \E s \in Sessions : CloseEvent(s)
    \/ \E s \in Sessions : CloseUnlock(s)
    \/ \E s \in Sessions : StreamError(s)
    \/ \E s \in Sessions : ErrorUnlock(s)
    \/ \E p \in ProgressValues : Progress100(ReportedToken, p)
    \/ \E p \in ProgressValues : ProgressFailed(ReportedToken, p)
    \/ \E p \in ProgressValues : ProgressOther(ReportedToken, p)

SpecTokens == InitTokens /\ [][NextTokens]_vars

\* ------------------------------------------------ one request at a time

\* no download request is between its arrival and the end of its handlers
NoneInFlight ==
    \A s \in Sessions : sess[s].pc \in {"idle", "done"} \/ Over(sess[s])

\* a request that arrives when no other is in flight
RequestAlone(s, t, h, m) == NoneInFlight /\ Request(s, t, h, m)

\* GET and HEAD requests with any Range header, one after the other, on a
\* movie file that is empty or FileSize bytes long, with notifications that
\* may fail; no call of the progress route.
NextSeq ==
    \/ \E s \in Sessions, t \in Tokens \cup {UnknownToken, NoToken},
          h \in WideRangeHeaders, m \in Methods :
          RequestAlone(s, t, h, m)
    \/ \E s \in Sessions : FileMissing(s)
    \/ \E s \in Sessions, size \in {0, FileSize} : Lock(s, size)
    \/ \E s \in Sessions : InitRanges(s)
    \/ \E s \in Sessions : StreamData(s)
    \/ \E s \in Sessions : Flush(s)
    \/ \E s \in Sessions : FinishEvent(s)
    \/ \E s \in Sessions : FinishRead(s)
    \/ \E s \in Sessions : FinishWriteRanges(s)
    \/ \E s \in Sessions : FinishWriteFails(s)
    \/ \E s \in Sessions : FinishComplete(s)
    \/ \E s \in Sessions : FullComplete(s)
    \/ \E s \in Sessions : FullMail(s)
    \/ \E s \in Sessions : MailFails(s)
    \/ \E s \in Sessions : FinishUnlock(s)
    \/ \E s \in Sessions : CloseEvent(s)
    \/ \E s \in Sessions : CloseUnlock(s)
    \/ \E s \in Sessions : StreamError(s)
    \/ \E s \in Sessions : ErrorUnlock(s)

SpecSeq == Init /\ [][NextSeq]_vars

\* ------------------------------------------------ failing writes

\* range handler: the completion write throws; the catch block unlocks and
\* sendMail is not reached (download.ts 267-275, 289-292)
FinishCompleteFails(s) ==
    /\ sess[s].fin = "complete"
    /\ sess' = [sess EXCEPT ![s].fin = "unlock"]
    /\ UNCHANGED <<db, mails, everCompleted, calc, outside>>

\* a full-file handler that goes on to findOne and sendMail after a
\* completion write that threw
FullCompleteFailsThenMail(s) ==
    /\ sess[s].fin = "fullWrite"
    /\ sess' = [sess EXCEPT ![s].fin = "fullMail"]
    /\ UNCHANGED <<db, mails, everCompleted, calc, outside>>

\* full-file handler: the completion write throws; the catch block only
\* logs (download.ts 332-341, 349-351)
FullCompleteFails(s) ==
    /\ sess[s].fin = "fullWrite"
    /\ sess' = [sess EXCEPT ![s].fin = "done"]
    /\ UNCHANGED <<db, mails, everCompleted, calc, outside>>

\* progress === "100" with a token of no record, or with a write that
\* throws: updateOne changes nothing, findOne finds nothing (404) or is not
\* reached, and sendMail is not called (download_success.ts 36-48)
Progress100NoRecord(t, p) ==
    /\ p = "100"
    /\ UNCHANGED vars

\* GET requests for the file or one of its halves, served one at a time, with
\* completion writes that may fail and with the progress reports "100" and
\* "-1"
NextMail ==
    \/ \E s \in Sessions, t \in Tokens, h \in HalfRangeHeaders :
          RequestAlone(s, t, h, "GET")
    \/ \E s \in Sessions : Lock(s, FileSize)
    \/ \E s \in Sessions : InitRanges(s)
    \/ \E s \in Sessions : StreamData(s)
    \/ \E s \in Sessions : Flush(s)
    \/ \E s \in Sessions : FinishEvent(s)
    \/ \E s \in Sessions : FinishRead(s)
    \/ \E s \in Sessions : FinishWriteRanges(s)
    \/ \E s \in Sessions : FinishComplete(s)
    \/ \E s \in Sessions : FinishCompleteFails(s)
    \/ \E s \in Sessions : FullComplete(s)
    \/ \E s \in Sessions : FullCompleteFails(s)
    \/ \E s \in Sessions : FullMail(s)
    \/ \E s \in Sessions : FinishUnlock(s)
    \/ \E s \in Sessions : CloseEvent(s)
    \/ \E s \in Sessions : CloseUnlock(s)
    \/ \E t \in Tokens, p \in ProgressValues : Progress100(t, p)
    \/ \E t \in Tokens, p \in ProgressValues : ProgressFailed(t, p)
    \/ \E t \in Tokens \cup {UnknownToken}, p \in ProgressValues :
          Progress100NoRecord(t, p)

SpecMail == Init /\ [][NextMail]_vars

\* ---------------------------------------------------------------- claims

\* C1: at most one request at a time holds the lease on a token.
C1_AtMostOneHolder ==
    \A t \in Tokens : Cardinality({s \in Sessions : Holds(s, t)}) <= 1

\* C2: the "movie downloaded" notification is sent at most once per token.
C2_NotifiedAtMostOnce ==
    \A t \in Tokens : mails[t] <= 1

\* C3: a Completed token has coverage exactly [[0, FileSize-1]].
C3_CompletedIsFullyCovered ==
    \A t \in Tokens : db[t].downloadedAt # Null => Coverage(t) = FullCoverage

\* C4: no step removes a byte from a token's persisted coverage.
C4_CoverageOnlyGrows ==
    [][\A t \in Tokens : Subsumes(Coverage(t)', Coverage(t))]_vars

\* C5: a release by a request that has released before, made while the token
\* is locked for another request that holds the lease, leaves it locked.
C5_StaleReleaseKeepsLock ==
    [][\A a \in Sessions :
          (/\ ReleaseStep(a)
           /\ ReleaseWrites(sess[a]) >= 1
           /\ db[sess[a].token].locked
           /\ \E b \in Sessions \ {a} : Holds(b, sess[a].token))
          => db'[sess[a].token].locked]_vars

\* C6: once the finish handler of a request made the token Completed, the
\* unlock of the same request's close handler changes nothing in the record.
C6_CloseAfterCompletedIsNoOp ==
    [][\A s \in Sessions :
          (CompletedBy(sess[s]) /\ sess[s].cls = "unlock" /\ sess'[s].cls = "done")
          => db' = db]_vars

\* C7: once downloadedAt is set, no step changes downloadedAt, locked or the
\* coverage of the record.
C7_CompletedIsImmutable ==
    [][\A t \in Tokens :
          db[t].downloadedAt # Null
          => /\ db'[t].downloadedAt = db[t].downloadedAt
             /\ db'[t].locked = db[t].locked
             /\ Coverage(t)' = Coverage(t)]_vars

\* C8: a download request that arrives after its token has been Completed is
\* answered 403 DOWNLOAD_ALREADY_COMPLETED.
C8_AfterCompletedAlways403 ==
    [][\A s \in Sessions :
          (/\ sess[s].pc = "idle" /\ sess'[s].pc # "idle"
           /\ sess'[s].token \in Tokens
           /\ everCompleted[sess'[s].token])
          => sess'[s].resp = "403 DOWNLOAD_ALREADY_COMPLETED"]_vars

\* C9: a token's state changes only Issued|Paused -> Locked and
\* Locked -> Paused|Completed, the latter by a release of the lease holder.
C9_StateTransitions ==
    [][\A t \in Tokens :
          LET a == TokenState(db[t])
              b == TokenState(db'[t])
          IN a # b =>
               \/ a \in {"Issued", "Paused"} /\ b = "Locked"
               \/ /\ a = "Locked" /\ b \in {"Paused", "Completed"}
                  /\ \E s \in Sessions : Holds(s, t) /\ ReleaseStep(s)]_vars

\* C10: a request that locked the token has made a release write when all its
\* handlers have run, and only its first release write has an effect on the
\* record.
C10_ReleasedExactlyOnce ==
    /\ [](\A s \in Sessions : Over(sess[s]) => ReleaseWrites(sess[s]) >= 1)
    /\ [][\A s \in Sessions :
            (ReleaseStep(s) /\ ReleaseWrites(sess[s]) >= 1) => db' = db]_vars

\* C11: a token is locked and not Completed only while a download request
\* that made the lock write on it is still in flight.
C11_LockedOnlyWhileHeld ==
    \A t \in Tokens :
        (db[t].locked /\ db[t].downloadedAt = Null)
        => \E s \in Sessions :
              sess[s].token = t /\ Acquired(sess[s]) /\ ~Over(sess[s])

\* C12: isFullyCovered(ranges, FileSize) is TRUE exactly when the merged
\* ranges are [[0, FileSize-1]].
C12_IsFullyCoveredExact ==
    calc.done => (calc.covered <=> mergeRanges(calc.ranges) = FullCoverage)

\* the bytes of the file that the socket took from request rec
DeliveredRange(rec) == [start |-> rec.start, end |-> rec.start + rec.flushed - 1]

RECURSIVE DeliveredRanges(_)
DeliveredRanges(S) ==
    IF S = {} THEN <<>>
    ELSE LET s == CHOOSE x \in S : TRUE
         IN <<DeliveredRange(sess[s])>> \o DeliveredRanges(S \ {s})

\* the bytes of the file that the requests on token t delivered, merged
Delivered(t) ==
    mergeRanges(DeliveredRanges({s \in Sessions :
                                    sess[s].token = t /\ sess[s].flushed > 0}))

\* C13: every byte of a token's persisted coverage was handed to the socket
\* of some request on that token.
C13_CoverageIsDelivered ==
    \A t \in Tokens : Subsumes(Delivered(t), Coverage(t))

\* the client went away when the socket had taken a part of the body of
\* request rec, and no other handler of the request has run
PartlyDelivered(rec) ==
    /\ rec.pc = "streaming" /\ rec.method = "GET"
    /\ rec.fin = "none" /\ rec.err = "none"
    /\ 0 < rec.flushed /\ rec.flushed < BodySize(rec.range, rec.fileSize)

\* C14: when the close handler of a request whose body was delivered in part
\* has finished, the coverage has grown by exactly the delivered bytes, the
\* token is unlocked and not Completed, and no notification was sent.
C14_DisconnectRecordsDelivered ==
    [][\A s \in Sessions :
          (PartlyDelivered(sess[s]) /\ sess[s].cls = "unlock" /\ sess'[s].cls = "done")
          => LET t == sess[s].token
             IN /\ Coverage(t)' =
                       mergeRanges(Append(Coverage(t), DeliveredRange(sess[s])))
                /\ ~db'[t].locked
                /\ db'[t].downloadedAt = Null
                /\ mails' = mails]_vars

\* a GET range request that ran to the end of its finish and close handlers
\* with no stream error and no failed write
CleanRange(rec) ==
    /\ Over(rec) /\ rec.pc = "streaming"
    /\ rec.method = "GET" /\ rec.range # NoRange
    /\ rec.fin = "done" /\ rec.err = "none" /\ rec.mergedRanges # <<>>

\* C15: after range requests on one token that came one after the other and
\* each finished cleanly, the token is unlocked, not Completed and holds the
\* merged ranges as long as they do not cover the file; once they cover it,
\* the coverage is [[0, FileSize-1]], the token is Completed and one
\* notification has been sent.
C15_SequentialRanges ==
    \A t \in Tokens :
        LET started == {s \in Sessions : sess[s].pc # "idle"}
        IN (started # {} /\ \A s \in started :
                               sess[s].token = t /\ CleanRange(sess[s]))
           => IF Delivered(t) = FullCoverage
              THEN /\ Coverage(t) = FullCoverage
                   /\ db[t].downloadedAt # Null
                   /\ mails[t] = 1
              ELSE /\ Coverage(t) = Delivered(t)
                   /\ ~db[t].locked
                   /\ db[t].downloadedAt = Null
                   /\ mails[t] = 0

\* a Range header that is present and unparsable, or starts at or beyond the
\* end of the file, or starts after its own end
RangeNotSatisfiable(h, L) ==
    /\ h # NoRange
    /\ \/ h[1] = NaN
       \/ h[1] >= L
       \/ h[2] # NoEnd /\ h[1] > h[2]

\* C16: a request that reached the range parsing with a Range header that
\* cannot be satisfied is answered 416 and no byte of the file is read for it.
C16_UnsatisfiableRangeIs416 ==
    \A s \in Sessions :
        (/\ sess[s].pc \in {"streaming", "failed"}
         /\ RangeNotSatisfiable(sess[s].range, sess[s].fileSize))
        => sess[s].resp = "416" /\ sess[s].bytesStreamed = 0

\* C17: no step of a request whose Range header cannot be satisfied changes
\* a token record.
C17_NoLockForUnservable ==
    [][\A s \in Sessions :
          (/\ RangeNotSatisfiable(sess[s].range, sess'[s].fileSize)
           /\ sess'[s] # sess[s]) => db' = db]_vars

\* the interval a request with header h is to be served: the whole file with
\* no header, else from the header's start to its end or to the last byte
\* of the file, whichever comes first
ServedInterval(h, L) ==
    IF h = NoRange THEN [start |-> 0, end |-> L - 1]
    ELSE [start |-> h[1],
          end |-> IF h[2] = NoEnd \/ h[2] > L - 1 THEN L - 1 ELSE h[2]]

\* C18: a request for a file that is not empty, with no Range header or a
\* satisfiable one, once past the range parsing, reads the file from the start to the end of its served
\* interval: the read stream is opened on exactly that interval, never yields
\* more bytes than it holds, and has yielded all of them when the response
\* finishes.
C18_ServedInterval ==
    \A s \in Sessions :
        (/\ sess[s].pc \in {"streaming", "failed"}
         /\ sess[s].fileSize > 0
         /\ ~RangeNotSatisfiable(sess[s].range, sess[s].fileSize))
        => LET iv == ServedInterval(sess[s].range, sess[s].fileSize)
               size == iv.end - iv.start + 1
           IN /\ sess[s].pc = "streaming"
              /\ sess[s].start = iv.start /\ sess[s].safeEnd = iv.end
              /\ sess[s].bytesStreamed <= size
              /\ (sess[s].fin # "none" /\ sess[s].err = "none")
                    => sess[s].bytesStreamed = size

\* a GET request for bytes up to beyond the end of the file has been served
\* up to the last byte of the file
C18_Witness ==
    \E s \in Sessions :
        /\ sess[s].method = "GET" /\ sess[s].range = <<Half, 3 * FileSize>>
        /\ sess[s].fin = "done" /\ sess[s].err = "none"
        /\ sess[s].flushed = FileSize - Half

\* request s arrives in this step
Arrives(s) == sess[s].pc = "idle" /\ sess'[s].pc # "idle"

\* C19: a request with no token is answered 400 NO_TOKEN and one with a token
\* of no record 400 TOKEN_INVALID; the request ends there, having changed no
\* token record and locked nothing.
C19_BadTokenNoChange ==
    [][\A s \in Sessions :
          (Arrives(s) /\ sess'[s].token \notin Tokens)
          => /\ db' = db
             /\ sess'[s].pc = "done" /\ ~Acquired(sess'[s])
             /\ sess'[s].resp = IF sess'[s].token = NoToken THEN "400 NO_TOKEN"
                                ELSE "400 TOKEN_INVALID"]_vars

\* both rejections have been given
C19_Witness ==
    /\ \E s \in Sessions : sess[s].resp = "400 NO_TOKEN"
    /\ \E s \in Sessions : sess[s].resp = "400 TOKEN_INVALID"

\* C20: a request that finds its token locked for another request in flight
\* is answered 409 DOWNLOAD_IN_PROGRESS and changes neither the token record
\* nor the other request.
C20_Contention409 ==
    [][\A s \in Sessions :
          (/\ Arrives(s)
           /\ sess'[s].token \in Tokens
           /\ db[sess'[s].token].locked
           /\ db[sess'[s].token].downloadedAt = Null
           /\ \E o \in Sessions \ {s} : Holds(o, sess'[s].token))
          => /\ sess'[s].resp = "409 DOWNLOAD_IN_PROGRESS"
             /\ sess'[s].pc = "done"
             /\ db' = db
             /\ \A o \in Sessions \ {s} : sess'[o] = sess[o]]_vars

\* the movie file of request rec was not found, or was found empty
AssetUnusable(rec) ==
    \/ rec.resp = "500 MOVIE_FILE_NOT_FOUND"
    \/ Acquired(rec) /\ rec.fileSize = 0

\* C21: a request whose movie file is missing or empty gets no answer other
\* than 500, the token is not locked once it is answered, and no step of the
\* request sets downloadedAt, changes the coverage or sends the notification.
C21_UnusableAssetIs500 ==
    [][\A s \in Sessions :
          (sess'[s] # sess[s] /\ AssetUnusable(sess'[s]))
          => LET t == sess[s].token
             IN /\ sess'[s].resp \in {"none", "500 MOVIE_FILE_NOT_FOUND"}
                /\ sess'[s].resp # "none" => ~db'[t].locked
                /\ db'[t].downloadedAt = db[t].downloadedAt
                /\ Coverage(t)' = Coverage(t)
                /\ mails' = mails]_vars

\* C22: when the error handler of a read stream that failed after its first
\* bytes has run, the token is unlocked and not Completed, its coverage holds
\* only delivered bytes and no notification was sent by it.
C22_StreamErrorReleases ==
    [][\A s \in Sessions :
          (/\ sess[s].bytesStreamed > 0
           /\ sess[s].err \in {"none", "unlock"}
           /\ sess'[s].err \in {"threw", "done"})
          => LET t == sess[s].token
             IN /\ ~db'[t].locked
                /\ db'[t].downloadedAt = Null
                /\ Subsumes(Delivered(t)', Coverage(t)')
                /\ mails' = mails]_vars

\* C23: the failure of a request's completion notification changes no token
\* record (downloadedAt stays set, the lock is not touched), sends nothing
\* again and changes nothing else of the request; the token of a failed
\* notification has downloadedAt set and one notification attempt.
C23_FailedMailKeepsCompleted ==
    /\ [](\A s \in Sessions :
            sess[s].mail = "failed"
            => /\ db[sess[s].token].downloadedAt # Null
               /\ mails[sess[s].token] = 1)
    /\ [][\A s \in Sessions :
            (sess[s].mail = "called" /\ sess'[s].mail = "failed")
            => /\ db' = db
               /\ mails' = mails
               /\ sess'[s] = [sess[s] EXCEPT !.mail = "failed"]]_vars

\* the notification of a range request that completed its token has failed
C23_Witness ==
    \E s \in Sessions :
        /\ sess[s].mail = "failed" /\ sess[s].range # NoRange
        /\ CompletedBy(sess[s]) /\ Over(sess[s])

\* the lists that hold the elements of list l in another order
Reorderings(l) ==
    {[i \in 1..Len(l) |-> l[p[i]]] :
        p \in {q \in [1..Len(l) -> 1..Len(l)] :
                  \A i, j \in 1..Len(l) : q[i] = q[j] => i = j}}

\* C24: the coverage that results from adding a list of ranges is the same
\* for every order of the list, does not change when a range of the list is
\* added again or when it is merged again; [0, Half-1], [Half, FileSize-1],
\* [0, Half-1] give [[0, FileSize-1]] with a total of FileSize.
C24_MergeOrderIndependent ==
    calc.added =>
        /\ \A l \in Reorderings(calc.ranges) : AddAll(<<>>, l) = calc.merged
        /\ mergeRanges(calc.ranges) = calc.merged
        /\ \A i \in 1..Len(calc.ranges) :
              AddRange(calc.merged, calc.ranges[i]) = calc.merged
        /\ mergeRanges(calc.merged) = calc.merged
        /\ calc.ranges = HalvesList
           => calc.merged = FullCoverage /\ calc.total = FileSize

\* [0, Half-1], [Half, FileSize-1], [0, Half-1] have been added
C24_Witness ==
    /\ calc.added
    /\ calc.ranges = HalvesList

\* a coverage list as the token contract wants it: 0 <= start <= end in every
\* range, and every range begins more than one byte after the one before it
WellFormed(ranges) ==
    /\ \A i \in 1..Len(ranges) :
          0 <= ranges[i].start /\ ranges[i].start <= ranges[i].end
    /\ \A i \in 1..(Len(ranges) - 1) :
          ranges[i].end + 1 < ranges[i + 1].start

\* C25: in every reachable state the persisted coverage of every token is
\* sorted, pairwise disjoint and maximally merged, with 0 <= start <= end in
\* every range, whatever Range values the requests carried.
C25_CoverageWellFormed ==
    \A t \in Tokens : WellFormed(Coverage(t))

\* C26: a request for one token neither reads nor changes the record of
\* another token.  Every step of a download changes at most the record and
\* the mail count of the token the request carries, every step of either
\* route changes the record of at most one token, and a request is turned
\* away only for what the record of its own token says.
C26_OtherTokensUntouched ==
    [][ /\ \A s \in Sessions :
              sess'[s] # sess[s] =>
                  \A u \in DOMAIN db \ {sess'[s].token} :
                      db'[u] = db[u] /\ mails'[u] = mails[u]
        /\ \A u, v \in DOMAIN db :
              (db'[u] # db[u] /\ db'[v] # db[v]) => u = v
        /\ \A s \in Sessions :
              (Arrives(s) /\ sess'[s].pc = "done") =>
                  \/ db[sess'[s].token].locked
                  \/ db[sess'[s].token].downloadedAt # Null
      ]_vars

\* the first purchase is being streamed under its lock while the second has
\* been completed by its own client
C26_Witness ==
    /\ DOMAIN db = TwoTokens
    /\ sess["A"].pc = "streaming" /\ sess["A"].bytesStreamed > 0
    /\ db["t1"].locked /\ db["t1"].downloadedAt = Null
    /\ sess["B"].fin = "done" /\ sess["B"].resp = "200"
    /\ db["t2"].downloadedAt # Null /\ Coverage("t2") = FullCoverage
    /\ mails["t2"] > 0 /\ mails["t1"] = 0

\* const chunkSize = safeEnd - start + 1, the Content-Length of a 206
\* (download.ts 208, 216)
chunkSize(rec) == rec.safeEnd - rec.start + 1

\* the 206 response of request s is under way: the headers of writeHead are
\* followed by the piped file
Sends206(s) ==
    sess[s].pc = "streaming" /\ sess[s].range # NoRange

\* C27: every 206 response has Content-Range: bytes S-E/L with
\* 0 <= S <= E <= L-1 and a Content-Length of E-S+1 that is at least 1; the
\* body never holds more bytes than that, and on a clean finish of a GET
\* request it holds exactly that many.
C27_PartialResponseHeaders ==
    \A s \in Sessions :
        Sends206(s) =>
            /\ sess[s].resp = "206"
            /\ 0 <= sess[s].start /\ sess[s].start <= sess[s].safeEnd
            /\ sess[s].safeEnd <= sess[s].fileSize - 1
            /\ chunkSize(sess[s]) >= 1
            /\ sess[s].flushed <= sess[s].bytesStreamed
            /\ sess[s].bytesStreamed <= chunkSize(sess[s])
            /\ (sess[s].fin # "none" /\ sess[s].err = "none" /\ sess[s].method = "GET")
                  => sess[s].flushed = chunkSize(sess[s])

\* a GET request for all bytes but the last has finished cleanly
C27_Witness ==
    \E s \in Sessions :
        /\ Sends206(s) /\ sess[s].method = "GET"
        /\ sess[s].range = <<0, FileSize - 2>>
        /\ sess[s].fin # "none" /\ sess[s].err = "none"
        /\ sess[s].flushed = FileSize - 1

\* the headers the route sets on a response that carries the file: writeHead
\* on the range path (download.ts 213-219), setHeader on the full-file path
\* (312-314)
ResponseHeaders(rec) ==
    IF rec.range # NoRange
    THEN [ContentRange |-> <<rec.start, rec.safeEnd, rec.fileSize>>,
          AcceptRanges |-> "bytes",
          ContentLength |-> rec.safeEnd - rec.start + 1,
          ContentType |-> "video/mp4",
          ContentDisposition |-> "attachment; filename=Heuried.mp4"]
    ELSE [ContentLength |-> rec.fileSize,
          ContentType |-> "video/mp4",
          ContentDisposition |-> "attachment; filename=Heuried.mp4"]

\* C28: every response that carries bytes of the file, the 200 of the full
\* file and the 206 of a range alike, has Accept-Ranges: bytes, a
\* Content-Type and Content-Disposition: attachment.
C28_FileResponseHeaders ==
    \A s \in Sessions :
        (sess[s].pc = "streaming" /\ sess[s].resp \in {"200", "206"}) =>
            LET hd == ResponseHeaders(sess[s])
            IN /\ {"AcceptRanges", "ContentType", "ContentDisposition"}
                     \subseteq DOMAIN hd
               /\ hd.AcceptRanges = "bytes"
               /\ hd.ContentDisposition = "attachment; filename=Heuried.mp4"

\* the record of token t is as the webhook inserted it
Untouched(t) ==
    /\ ~db[t].locked /\ db[t].downloadedAt = Null
    /\ ~db[t].hasRanges /\ Coverage(t) = <<>>

\* C29: a record the purchase webhook created is Issued: unlocked, with no
\* downloadedAt and with empty coverage.  The first download request for it
\* passes the token checks, and the first range a finish handler records for
\* it becomes the whole coverage.
C29_IssuedThenFirstRange ==
    /\ \A t \in Tokens : Untouched(t) /\ TokenState(db[t]) = "Issued"
    /\ [][ /\ \A s \in Sessions :
                 (/\ Arrives(s) /\ sess'[s].token \in Tokens
                  /\ Untouched(sess'[s].token))
                     => sess'[s].pc = "found"
           /\ \A t \in Tokens :
                 (Coverage(t) = <<>> /\ Coverage(t)' # <<>>) =>
                     \E s \in Sessions :
                         /\ sess[s].token = t /\ sess[s].fin # "none"
                         /\ Coverage(t)' = << [start |-> sess[s].start,
                                               end |-> sess[s].safeEnd] >>
         ]_vars

\* the first request for the token asked for the second half of the file and
\* has finished: the coverage is that range alone
C29_Witness ==
    \E s \in Sessions :
        /\ sess[s].token \in Tokens /\ sess[s].range = <<Half, NoEnd>>
        /\ sess[s].method = "GET" /\ sess[s].flushed = FileSize - Half
        /\ sess[s].fin = "done"
        /\ \A o \in Sessions \ {s} : sess[o].pc = "idle"
        /\ Coverage(sess[s].token) = << [start |-> Half, end |-> FileSize - 1] >>
        /\ db[sess[s].token].downloadedAt = Null

\* request s calls sendMail in this step
CallsMail(s) == sess[s].mail = "none" /\ sess'[s].mail = "called"

\* the completion write of request s throws in this step
CompletionWriteFails(s) ==
    \/ sess[s].fin = "complete" /\ sess'[s].fin = "unlock"
    \/ sess[s].fin = "fullWrite" /\ sess'[s].fin = "done"

CoveredOffsets(ranges) ==
    {x \in 0..(FileSize - 1) :
        \E i \in 1..Len(ranges) : ranges[i].start <= x /\ x <= ranges[i].end}

\* C31: on a merged list of ranges inside [0, L-1], totalBytesDownloaded is
\* the number of distinct byte offsets the ranges cover: no byte is counted
\* twice, and the total is at most L.
C31_TotalIsDistinctBytes ==
    calc.added =>
        /\ WellFormed(calc.merged)
        /\ calc.total = totalBytesDownloaded(calc.merged)
        /\ calc.total = Cardinality(CoveredOffsets(calc.merged))
        /\ calc.total = Cardinality(CoveredOffsets(calc.ranges))
        /\ calc.total <= FileSize

\* two overlapping ranges were merged: the bytes they share count once
C31_Witness ==
    /\ calc.added
    /\ calc.ranges = << [start |-> 0, end |-> Half],
                        [start |-> Half - 1, end |-> FileSize - 2] >>
    /\ calc.total = FileSize - 1

\* ------------------------------------------------ route registration

\* the default exports of the route files: Method, Path, Priority
\* (routes/redirect.ts 4-14, routes/examples/empty.ts 4-20,
\* routes/test/neverGet.ts 4-21, routes/status.ts 4-18)
RouteFiles ==
    [ redirect |-> [Method |-> "get", Path |-> "/", Priority |-> 0],
      empty    |-> [Method |-> "get", Path |-> "/", Priority |-> 5],
      neverGet |-> [Method |-> "get", Path |-> "/", Priority |-> 10],
      status   |-> [Method |-> "get", Path |-> "/status", Priority |-> 0] ]

\* readDirRecursive('./dist/routes') yields the files in the order of the
\* directory listing, which is not sorted
GatherOrders ==
    {o \in [1..Cardinality(DOMAIN RouteFiles) -> DOMAIN RouteFiles] :
        \A i, j \in DOMAIN o : o[i] = o[j] => i = j}

\* the routes as gathered: registration in the order of the files
Unsorted(routes) == routes

\* routes.sort((a, b) => a.Priority - b.Priority): a stable sort
RECURSIVE SortByPriority(_)
SortByPriority(routes) ==
    IF Len(routes) <= 1 THEN routes
    ELSE LET head == SortByPriority(SubSeq(routes, 1, Len(routes) - 1))
             x == routes[Len(routes)]
             k == Cardinality({i \in 1..Len(head) :
                     RouteFiles[head[i]].Priority <= RouteFiles[x].Priority})
         IN SubSeq(head, 1, k) \o <<x>> \o SubSeq(head, k + 1, Len(head))

\* a route registered with app.get answers GET and HEAD requests to its path
Matches(r, method, path) ==
    /\ RouteFiles[r].Path = path
    /\ \/ RouteFiles[r].Method = "get" /\ method \in {"GET", "HEAD"}
       \/ RouteFiles[r].Method = "post" /\ method = "POST"

\* Express walks its stack in the order of registration and calls the first
\* handler that matches; no OnRequest of the routes calls next()
FirstMatch(stack, method, path) ==
    LET hits == {i \in 1..Len(stack) : Matches(stack[i], method, path)}
    IN IF hits = {} THEN "404"
       ELSE stack[CHOOSE i \in hits : \A j \in hits : i <= j]

InitRouter ==
    /\ db = [t \in Tokens |-> IssuedRecord]
    /\ sess = [s \in Sessions |-> IdleSession]
    /\ mails = [t \in Tokens |-> 0]
    /\ everCompleted = [t \in Tokens |-> FALSE]
    /\ calc = NoCalc
    /\ router \in {[NoRouter EXCEPT !.gathered = o] : o \in GatherOrders}
    /\ authz = NoAuthz /\ hook = NoHook /\ cache = NoCache /\ mongo = NoMongo

\* main(): sort, register, listen (app.ts 48-68)
Register ==
    /\ ~router.listening
    /\ router' = [router EXCEPT !.registered = SortByPriority(router.gathered),
                                !.listening = TRUE]
    /\ UNCHANGED <<db, sess, mails, everCompleted, calc, authz, hook, cache, mongo>>

\* a request arrives and Express dispatches it
Dispatch(method, path) ==
    /\ router.listening
    /\ router' = [router EXCEPT !.request = <<method, path>>,
                                !.invoked = FirstMatch(router.registered, method, path)]
    /\ UNCHANGED <<db, sess, mails, everCompleted, calc, authz, hook, cache, mongo>>

NextRouter ==
    \/ Register
    \/ \E method \in {"GET", "HEAD", "POST"}, path \in {"/", "/status", "/none"} :
          Dispatch(method, path)

SpecRouter == InitRouter /\ [][NextRouter]_vars

\* C32: routes are registered in ascending order of Priority, and of the
\* routes that share the method and path of a request the one with the
\* smallest Priority handles it: the handler of a route is never invoked
\* when a route of smaller Priority matches the request.
C32_SmallestPriorityHandles ==
    /\ router.listening =>
          /\ \A i, j \in 1..Len(router.registered) :
                i < j => RouteFiles[router.registered[i]].Priority
                             <= RouteFiles[router.registered[j]].Priority
          /\ {router.registered[i] : i \in 1..Len(router.registered)}
                = DOMAIN RouteFiles
    /\ router.request # <<>> =>
          LET m == router.request[1]
              p == router.request[2]
              matching == {r \in DOMAIN RouteFiles : Matches(r, m, p)}
          IN IF matching = {} THEN router.invoked = "404"
             ELSE /\ router.invoked \in matching
                  /\ \A r \in matching :
                        RouteFiles[router.invoked].Priority <= RouteFiles[r].Priority

\* the file of the Priority 10 route was gathered before the Priority 0 and
\* Priority 5 routes of the same path, and the Priority 0 route answered
C32_Witness ==
    /\ router.gathered[1] = "neverGet"
    /\ router.request = <<"GET", "/">>
    /\ router.invoked = "redirect"

\* ------------------------------------------------ Authorization Manager

MaxClock == 3           \* latest reading of the clock
MaxIndexed == 2         \* most authorization tokens in the index

NoHeader == "none"      \* the request has no x-authorization header
NoExpiry == Null        \* the token has no ExpiresAt
NullGroup == "null"     \* AuthorizationGroup: null

\* AuthorizationToken: SecretKey, AllowedServices, ExpiresAt?
AuthorizationTokens ==
    [SecretKey : {"k1", "k2"},
     AllowedServices : SUBSET {"Test", "Other"},
     ExpiresAt : {NoExpiry} \cup 1..(MaxClock - 1)]

TokenIndexes == UNION {[1..n -> AuthorizationTokens] : n \in 0..MaxIndexed}

\* the body of authorizations.forEach(token => ..) without the check of
\* ExpiresAt
AdmitsIgnoringExpiry(token, providedAuthKey, now, group) ==
    /\ token.SecretKey = providedAuthKey
    /\ group \in token.AllowedServices

\* the body of authorizations.forEach(token => ..): TRUE when it reaches
\* authKeyValid = true (part_012 148-163)
Admits(token, providedAuthKey, now, group) ==
    IF token.SecretKey # providedAuthKey THEN FALSE
    ELSE IF token.ExpiresAt # NoExpiry /\ now > token.ExpiresAt THEN FALSE
    ELSE IF group \notin token.AllowedServices THEN FALSE
    ELSE TRUE

\* authorizations.forEach(..) from token i on, with authKeyValid so far
RECURSIVE ForEachToken(_, _, _, _, _, _)
ForEachToken(authorizations, i, authKeyValid, providedAuthKey, now, group) ==
    IF i > Len(authorizations) THEN authKeyValid
    ELSE ForEachToken(authorizations, i + 1,
                      authKeyValid \/ Admits(authorizations[i], providedAuthKey, now, group),
                      providedAuthKey, now, group)

\* the middleware of a route with an AuthorizationGroup, then the route:
\* the status of the answer (part_012 126-192)
Authorize(authorizations, header, now, group) ==
    IF group = NullGroup THEN "handler"
    ELSE IF header = NoHeader THEN "401"
    ELSE IF ~ForEachToken(authorizations, 1, FALSE, header, now, group) THEN "403"
    ELSE "handler"

InitAuthz ==
    /\ db = [t \in Tokens |-> IssuedRecord]
    /\ sess = [s \in Sessions |-> IdleSession]
    /\ mails = [t \in Tokens |-> 0]
    /\ everCompleted = [t \in Tokens |-> FALSE]
    /\ calc = NoCalc
    /\ authz \in {[NoAuthz EXCEPT !.authorizations = a, !.now = n] :
                     a \in TokenIndexes, n \in 0..MaxClock}
    /\ router = NoRouter /\ hook = NoHook /\ cache = NoCache /\ mongo = NoMongo

\* a request to a route of the given AuthorizationGroup arrives
AuthRequest(header, group) ==
    /\ authz.header = "unset"
    /\ LET answer == Authorize(authz.authorizations, header, authz.now, group)
       IN authz' = [authz EXCEPT !.header = header, !.group = group,
                                 !.status = answer,
                                 !.reached = (answer = "handler")]
    /\ UNCHANGED <<db, sess, mails, everCompleted, calc, router, hook, cache, mongo>>

NextAuthz ==
    \E header \in {NoHeader, "k1", "k2", "k3"}, group \in {NullGroup, "Test"} :
        AuthRequest(header, group)

SpecAuthz == InitAuthz /\ [][NextAuthz]_vars

\* an indexed token whose SecretKey is the header, that is not past its
\* ExpiresAt and whose AllowedServices holds the group of the route
HasValidToken(a) ==
    \E i \in 1..Len(a.authorizations) :
        LET token == a.authorizations[i]
        IN /\ token.SecretKey = a.header
           /\ token.ExpiresAt = NoExpiry \/ a.now <= token.ExpiresAt
           /\ a.group \in token.AllowedServices

\* C33: a request to a route whose AuthorizationGroup is not null reaches
\* the handler only with an x-authorization header that is the SecretKey of
\* an indexed token that is not past its ExpiresAt and allows the group of
\* the route; without the header the answer is 401, with no such token it
\* is 403, and in both cases the handler is not invoked.
C33_AuthorizedOnly ==
    (authz.header # "unset" /\ authz.group # NullGroup) =>
        /\ authz.reached <=> (authz.header # NoHeader /\ HasValidToken(authz))
        /\ authz.header = NoHeader => authz.status = "401" /\ ~authz.reached
        /\ (authz.header # NoHeader /\ ~HasValidToken(authz))
              => authz.status = "403" /\ ~authz.reached

\* the header is the key of two indexed tokens: one has expired, the other
\* allows the group and has not, and the handler is reached
C33_Witness ==
    /\ authz.group = "Test" /\ authz.header = "k1" /\ authz.reached
    /\ Len(authz.authorizations) = 2
    /\ authz.authorizations[1].SecretKey = "k1"
    /\ authz.authorizations[1].ExpiresAt # NoExpiry
    /\ authz.now > authz.authorizations[1].ExpiresAt
    /\ authz.authorizations[2].SecretKey = "k1"

\* ------------------------------------------------ POST /stripe/webhook

MaxDeliveries == 4      \* deliveries of the one checkout.session.completed event

\* the answers Stripe takes as a success (2xx): the event is not sent again
Accepted == {"200 No signature", "200 not a movie", "200 no e-mail", "200 received"}

\* one checkout.session.completed event: whether its line items hold the
\* movie product and whether the session has a customer e-mail
InitHook ==
    /\ db = [t \in Tokens |-> IssuedRecord]
    /\ sess = [s \in Sessions |-> IdleSession]
    /\ mails = [t \in Tokens |-> 0]
    /\ everCompleted = [t \in Tokens |-> FALSE]
    /\ calc = NoCalc
    /\ hook \in {[NoHook EXCEPT !.hasMovie = m, !.hasEmail = e] : m, e \in BOOLEAN}
    /\ router = NoRouter /\ authz = NoAuthz /\ cache = NoCache /\ mongo = NoMongo

\* the handler answers and the request is over
HookAnswer(status) ==
    [hook EXCEPT !.pc = "idle", !.answers = Append(@, status)]

\* Stripe delivers the event: for the first time, or again after an answer
\* that was not a 2xx.  Signature check (webhook.ts 19-34).
Deliver(sig) ==
    /\ hook.pc = "idle"
    /\ hook.deliveries < MaxDeliveries
    /\ IF hook.answers = <<>> THEN TRUE
       ELSE hook.answers[Len(hook.answers)] \notin Accepted
    /\ LET h == [hook EXCEPT !.deliveries = @ + 1]
       IN hook' = IF sig = "none"
                    THEN [h EXCEPT !.answers = Append(@, "200 No signature")]
                  ELSE IF sig = "invalid"
                    THEN [h EXCEPT !.answers = Append(@, "400")]
                  ELSE [h EXCEPT !.pc = "verified"]
    /\ UNCHANGED <<db, sess, mails, everCompleted, calc, router, authz, cache, mongo>>

\* listLineItems, the product test and the e-mail test (webhook.ts 42-53, 85)
HookLineItems ==
    /\ hook.pc = "verified"
    /\ hook' = IF ~hook.hasMovie THEN HookAnswer("200 not a movie")
               ELSE IF ~hook.hasEmail THEN HookAnswer("200 no e-mail")
               ELSE [hook EXCEPT !.pc = "insert"]
    /\ UNCHANGED <<db, sess, mails, everCompleted, calc, router, authz, cache, mongo>>

\* token = uuidv1(); insertOne({email, token, ..}) (webhook.ts 55-66): every
\* call makes a token of its own
HookInsert ==
    /\ hook.pc = "insert"
    /\ hook' = [hook EXCEPT !.pc = "mail",
                            !.records = Append(@, Len(@) + 1)]
    /\ UNCHANGED <<db, sess, mails, everCompleted, calc, router, authz, cache, mongo>>

\* sendMail(.., "movie_order.html") resolves to true (webhook.ts 69-79)
HookMailSent ==
    /\ hook.pc = "mail"
    /\ hook' = [HookAnswer("200 received") EXCEPT !.orderMails = @ + 1]
    /\ UNCHANGED <<db, sess, mails, everCompleted, calc, router, authz, cache, mongo>>

\* sendMail resolves to false: 500 (webhook.ts 80-82)
HookMailFails ==
    /\ hook.pc = "mail"
    /\ hook' = HookAnswer("500 Error sending email")
    /\ UNCHANGED <<db, sess, mails, everCompleted, calc, router, authz, cache, mongo>>

NextHook ==
    \/ \E sig \in {"none", "invalid", "valid"} : Deliver(sig)
    \/ HookLineItems
    \/ HookInsert
    \/ HookMailSent
    \/ HookMailFails

SpecHook == InitHook /\ [][NextHook]_vars

\* C34: for one completed checkout session with the movie product and a
\* customer e-mail at most one token record is ever inserted, however often
\* the event is delivered.
C34_OneRecordPerCheckout ==
    (hook.hasMovie /\ hook.hasEmail) => Len(hook.records) <= 1

\* ------------------------------------------- GET /badges/v1/firefox-addon

MaxTicks == 3           \* advances of the clock

UpdateInterval == 1     \* hours
HourMs == 60 * 60 * 1000
\* what the handler compares the elapsed milliseconds with
RefreshAfter == UpdateInterval * 60 * 60

BadgeRequests == {"r1", "r2"}
\* average_daily_users as the add-on API reports it
UpstreamUsers == {7, 8}
\* new Date().getTime() is counted in milliseconds from an origin two hours
\* before the process starts, so that cache.lastUpdate = 0 lies more than
\* an hour back as it does with the real clock
StartClock == 2 * HourMs
ClockSteps == {1000, RefreshAfter + 1, HourMs + 1}

InitCache ==
    /\ db = [t \in Tokens |-> IssuedRecord]
    /\ sess = [s \in Sessions |-> IdleSession]
    /\ mails = [t \in Tokens |-> 0]
    /\ everCompleted = [t \in Tokens |-> FALSE]
    /\ calc = NoCalc
    /\ cache = [NoCache EXCEPT !.now = StartClock,
                               !.pc = [r \in BadgeRequests |-> "idle"]]
    /\ router = NoRouter /\ authz = NoAuthz /\ hook = NoHook /\ mongo = NoMongo

\* time passes
Tick(d) ==
    /\ cache.ticks < MaxTicks
    /\ cache' = [cache EXCEPT !.now = @ + d, !.ticks = @ + 1, !.event = "tick"]
    /\ UNCHANGED <<db, sess, mails, everCompleted, calc, router, authz, hook, mongo>>

\* OnRequest up to its await (part_004 39-42, 46): either getAddonUsers
\* issues axios.get, or the redirect shows cache.users
BadgeRequest(r) ==
    /\ cache.pc[r] = "idle"
    /\ LET lastUpdate == cache.now - cache.lastUpdate
       IN cache' = IF lastUpdate > RefreshAfter
                     THEN [cache EXCEPT !.pc[r] = "fetching", !.event = "call"]
                   ELSE [cache EXCEPT !.event = "cached", !.shown = cache.users]
    /\ UNCHANGED <<db, sess, mails, everCompleted, calc, router, authz, hook, mongo>>

\* axios.get answers 200 (part_004 20-21, 42-46)
RefreshDone(r, n) ==
    /\ cache.pc[r] = "fetching"
    /\ cache' = [cache EXCEPT !.pc[r] = "idle", !.users = n,
                              !.lastUpdate = cache.now,
                              !.event = "refreshed", !.shown = n]
    /\ UNCHANGED <<db, sess, mails, everCompleted, calc, router, authz, hook, mongo>>

\* axios.get rejects or answers another status: getAddonUsers throws
\* (part_004 22-28) and OnRequest ends at line 42
RefreshFails(r) ==
    /\ cache.pc[r] = "fetching"
    /\ cache' = [cache EXCEPT !.pc[r] = "idle", !.event = "failed"]
    /\ UNCHANGED <<db, sess, mails, everCompleted, calc, router, authz, hook, mongo>>

NextCache ==
    \/ \E d \in ClockSteps : Tick(d)
    \/ \E r \in BadgeRequests : BadgeRequest(r)
    \/ \E r \in BadgeRequests, n \in UpstreamUsers : RefreshDone(r, n)
    \/ \E r \in BadgeRequests : RefreshFails(r)

SpecCache == InitCache /\ [][NextCache]_vars

\* a request of this step called the add-on API
CallsUpstream == \E r \in BadgeRequests :
    cache.pc[r] = "idle" /\ cache'.pc[r] = "fetching"

\* a request arrives (the step is OnRequest up to its await)
BadgeArrives == cache'.event \in {"call", "cached"} /\ cache'.now = cache.now
    /\ cache'.lastUpdate = cache.lastUpdate /\ cache'.users = cache.users

\* C35: the add-on API is called only when more than UpdateInterval (one
\* hour) has passed since the last successful refresh; a request inside
\* that hour is answered with the cached count and no call; a failed
\* refresh leaves cache.users and cache.lastUpdate as they were.
C35_RefreshAtMostHourly ==
    [][ /\ CallsUpstream => cache.now - cache.lastUpdate > UpdateInterval * HourMs
        /\ (BadgeArrives /\ cache.now - cache.lastUpdate <= UpdateInterval * HourMs)
              => (~CallsUpstream /\ cache'.event = "cached"
                    /\ cache'.shown = cache.users)
        /\ cache'.event = "failed"
              => (cache'.users = cache.users
                    /\ cache'.lastUpdate = cache.lastUpdate) ]_vars

\* ------------------------------------------------- helpers/database.ts

MaxClients == 3         \* MongoClients the process may create

Callers == {"a", "b", "c"}

\* Connect up to its await (database.ts 8-9): a new client in the module
\* variable, its connect() under way
StartConnect(m) ==
    [m EXCEPT !.client = m.created + 1, !.created = @ + 1]

\* Connect after its await (database.ts 11-13)
FinishConnect(m) ==
    [m EXCEPT !.db = m.client, !.isDatabaseConnected = TRUE]

\* app.ts starts listening without a call of Connect; the main() of
\* part_012 awaits Connect() before it listens
InitMongo ==
    /\ db = [t \in Tokens |-> IssuedRecord]
    /\ sess = [s \in Sessions |-> IdleSession]
    /\ mails = [t \in Tokens |-> 0]
    /\ everCompleted = [t \in Tokens |-> FALSE]
    /\ calc = NoCalc
    /\ \E atBoot \in BOOLEAN :
          LET m == [NoMongo EXCEPT !.pc = [c \in Callers |-> "idle"],
                                   !.got = [c \in Callers |-> 0]]
          IN mongo = IF atBoot THEN FinishConnect(StartConnect(m)) ELSE m
    /\ router = NoRouter /\ authz = NoAuthz /\ hook = NoHook /\ cache = NoCache

\* GetCollection up to its first await, or to its return when the flag is
\* set (database.ts 16-22)
GetCollection(c) ==
    /\ mongo.pc[c] \in {"idle", "returned"}
    /\ IF mongo.isDatabaseConnected
         THEN mongo' = [mongo EXCEPT !.pc[c] = "returned", !.got[c] = mongo.db]
       ELSE /\ mongo.created < MaxClients
            /\ mongo' = [StartConnect(mongo) EXCEPT !.pc[c] = "connecting"]
    /\ UNCHANGED <<db, sess, mails, everCompleted, calc, router, authz, hook, cache>>

\* client.connect() resolves and Connect runs to its end
Connected(c) ==
    /\ mongo.pc[c] = "connecting"
    /\ mongo' = [FinishConnect(mongo) EXCEPT !.pc[c] = "resumed"]
    /\ UNCHANGED <<db, sess, mails, everCompleted, calc, router, authz, hook, cache>>

\* client.connect() rejects: Connect and GetCollection throw
ConnectFails(c) ==
    /\ mongo.pc[c] = "connecting"
    /\ mongo' = [mongo EXCEPT !.pc[c] = "idle"]
    /\ UNCHANGED <<db, sess, mails, everCompleted, calc, router, authz, hook, cache>>

\* GetCollection after await Connect(): return db.collection(name)
ReturnCollection(c) ==
    /\ mongo.pc[c] = "resumed"
    /\ mongo' = [mongo EXCEPT !.pc[c] = "returned", !.got[c] = mongo.db]
    /\ UNCHANGED <<db, sess, mails, everCompleted, calc, router, authz, hook, cache>>

NextMongo ==
    \/ \E c \in Callers : GetCollection(c)
    \/ \E c \in Callers : Connected(c)
    \/ \E c \in Callers : ConnectFails(c)
    \/ \E c \in Callers : ReturnCollection(c)

SpecMongo == InitMongo /\ [][NextMongo]_vars

\* every collection handed out so far belongs to one client
SameClient == \A c, d \in Callers :
    (mongo.got[c] # 0 /\ mongo.got[d] # 0) => mongo.got[c] = mongo.got[d]

\* C36: however many GetCollection calls run at once, Connect runs at most
\* once in the process, and all returned collections belong to one client.
C36_ConnectOnce ==
    mongo.created <= 1 /\ SameClient

====
